---------------------------- MODULE Spec2Model ----------------------------
(***************************************************************************)
(* A model of dkolbly/go-logging: the module-leveled filter (level.go),    *)
(* the Logger, the Record and the package's Reset (logger.go), the         *)
(* Annotator backend (annotator.go) and the annotater stacking of          *)
(* Logger.Re (re.go). Calls are single steps where one caller is           *)
(* modelled, and are taken one memory access at a time where goroutines    *)
(* share the counter, a filter's maps or its sync.Once.                    *)
(*                                                                         *)
(* Strings are sequences of one-character strings, so that path.Match and  *)
(* strings.Contains are computed character by character.                   *)
(***************************************************************************)
EXTENDS Integers, Sequences, FiniteSets, TLC

VARIABLES
  filters,        \* heap of *moduleLeveled: id -> the struct's fields
  annotators,     \* heap of *Annotator: id -> [Extras, backend]
  loggers,        \* heap of *Logger: id -> [Module, OutputLevel, backend, annotater]
  defaultBackend, \* the process-wide default backend
  formatter,      \* the process-wide formatter that getFormatter() returns
  sequenceNo,     \* the process-wide record counter
  reImpl,         \* which of the two definitions of Logger.Re in re.go is built
                  \* (Nil where Re is never called)
  calls,          \* what the terminal sinks received during the last operation
  ret,            \* the last operation, its arguments and what it returned
  attached,       \* history: per logger, the annotaters attached to it by Re, in order
  pc,             \* per goroutine: where it stands in the call it runs ("idle" between calls)
  local,          \* per goroutine: the arguments and local variables of that call
  hist,           \* history: the records created and the Resets, in order
  proc,           \* the process: "running", "exited" (os.Exit) or "panicking"
  record          \* the Record that Message and Formatted are called on

vars == <<filters, annotators, loggers, defaultBackend, formatter,
          sequenceNo, reImpl, calls, ret, attached, pc, local, hist, proc, record>>

\* what the operations of a single caller on the backend chain leave alone
callVars == <<pc, local, hist, proc, record>>

-----------------------------------------------------------------------------
(* Levels *)

CRITICAL == 0
ERROR == 1
WARNING == 2
NOTICE == 3
INFO == 4
DEBUG == 5

Level == CRITICAL..DEBUG

-----------------------------------------------------------------------------
(* Bounds *)

MaxRules == 2      \* pattern rules a filter may hold
MaxSeq == 2        \* records created (values of sequenceNo)
MaxFilters == 2    \* moduleLeveled objects on the heap
MaxAnnotators == 1 \* Annotator objects on the heap
MaxLoggers == 3    \* Logger objects on the heap, where Re is exercised
MaxChainLoggers == 1 \* Logger objects on the heap, where backends are chained

-----------------------------------------------------------------------------
(* Strings *)

Nil == "nil"

EmptyMap == [x \in {} |-> Nil]

\* m[k] = v, as Go's map assignment
Put(m, k, v) == [x \in DOMAIN m \cup {k} |-> IF x = k THEN v ELSE m[x]]

\* strings.Contains(s, c) for a one-character c
Contains(s, c) == \E i \in 1..Len(s) : s[i] = c

RootName == <<>>
LoggerName == <<"l", "o", "g", "g", "e", "r">>
TestValue == <<"t", "e", "s", "t", "v", "a", "l", "u", "e">>

\* the module names looked up, and set as exact matches
ModuleNames == { <<"a", ".", "b">>, <<"a", "/", "b">> }

\* well-formed globs
GlobPatterns == { <<"*">>, <<"a", ".", "?">> }

\* holds a metacharacter and is rejected by path.Match
BadPatterns == { <<"*", "[">> }

\* the levels given to SetLevel
SetLevels == { CRITICAL, WARNING }

-----------------------------------------------------------------------------
(* path.Match, for patterns of literals, '*', '?' and an unterminated '['.  *)
(* '*' and '?' do not match '/'.                                           *)

\* true when the pattern opens a character class that it never closes
BadPattern(pattern) ==
  \E i \in 1..Len(pattern) :
     /\ pattern[i] = "["
     /\ ~ \E j \in (i + 2)..Len(pattern) : pattern[j] = "]"

RECURSIVE Glob(_, _)
Glob(pattern, name) ==
  IF pattern = <<>> THEN name = <<>>
  ELSE IF Head(pattern) = "*"
       THEN \/ Glob(Tail(pattern), name)
            \/ /\ name # <<>>
               /\ Head(name) # "/"
               /\ Glob(pattern, Tail(name))
  ELSE IF Head(pattern) = "?"
       THEN /\ name # <<>>
            /\ Head(name) # "/"
            /\ Glob(Tail(pattern), Tail(name))
  ELSE /\ name # <<>>
       /\ Head(name) = Head(pattern)
       /\ Glob(Tail(pattern), Tail(name))

Match(pattern, name) ==
  IF BadPattern(pattern)
  THEN [matched |-> FALSE, err |-> TRUE]
  ELSE [matched |-> Glob(pattern, name), err |-> FALSE]

-----------------------------------------------------------------------------
(* Objects *)

\* references to backends: a *moduleLeveled, an *Annotator, or a plain Backend
\* (a terminal sink); NilRef is Go's nil interface value
NilRef == [kind |-> "nil", id |-> 0]
FilterRef(i) == [kind |-> "filter", id |-> i]
AnnotatorRef(i) == [kind |-> "annotator", id |-> i]
SinkRef(i) == [kind |-> "sink", id |-> i]

\* the two values of the LeveledBackend type assertion in AddModuleLevel
IsLeveledBackend(b) == b.kind \in {"filter", "annotator"}

\* &moduleLeveled{...} as AddModuleLevel builds it
NewModuleLeveled(backend) ==
  [levels |-> EmptyMap, exactMatch |-> EmptyMap, patternRules |-> <<>>,
   backend |-> backend, formatter |-> Nil, once |-> FALSE]

\* AddModuleLevel that wraps whatever it is given
AddModuleLevel_AlwaysWraps(fs, backend) ==
  [filters |-> Append(fs, NewModuleLeveled(backend)),
   leveled |-> FilterRef(Len(fs) + 1)]

\* AddModuleLevel(backend) on the heap fs of filters: the heap afterwards and
\* the backend returned
AddModuleLevel(fs, backend) ==
  IF IsLeveledBackend(backend)
  THEN [filters |-> fs, leveled |-> backend]
  ELSE [filters |-> Append(fs, NewModuleLeveled(backend)),
        leveled |-> FilterRef(Len(fs) + 1)]

\* NewAnnotator(b)
NewAnnotator(b) == [Extras |-> EmptyMap, backend |-> b]

\* &Record{...} as the Logger builds it
NewRecord(id, module, lvl) ==
  [Id |-> id, Module |-> module, Level |-> lvl, Annotations |-> <<>>,
   formatter |-> Nil]

\* the error values a terminal sink may return
SinkErrors == {Nil, "err"}

-----------------------------------------------------------------------------
(* moduleLeveled: GetLevel, IsEnabledFor *)

\* ScanRules with the first matching rule winning
RECURSIVE ScanRules_FirstWins(_, _, _)
ScanRules_FirstWins(rules, module, level) ==
  IF rules = <<>> THEN level
  ELSE IF Match(Head(rules).pattern, module).matched THEN Head(rules).level
       ELSE ScanRules_FirstWins(Tail(rules), module, level)

\* the loop over l.patternRules in GetLevel: the last matching rule wins
RECURSIVE ScanRules(_, _, _)
ScanRules(rules, module, level) ==
  IF rules = <<>> THEN level
  ELSE ScanRules(Tail(rules), module,
                 IF Match(Head(rules).pattern, module).matched
                 THEN Head(rules).level ELSE level)

\* GetLevel with the pattern rules consulted before the exact matches
GetLevel_PatternsFirst(l, module) ==
  IF module \in DOMAIN l.levels
  THEN [l |-> l, level |-> l.levels[module]]
  ELSE LET hit == \E i \in 1..Len(l.patternRules) :
                     Match(l.patternRules[i].pattern, module).matched
           level == IF hit THEN ScanRules(l.patternRules, module, DEBUG)
                    ELSE IF module \in DOMAIN l.exactMatch
                         THEN l.exactMatch[module] ELSE DEBUG
       IN [l |-> [l EXCEPT !.levels = Put(@, module, level)], level |-> level]

\* GetLevel on the struct l: the struct afterwards and the level returned
GetLevel(l, module) ==
  IF module \in DOMAIN l.levels
  THEN [l |-> l, level |-> l.levels[module]]
  ELSE LET level == IF module \in DOMAIN l.exactMatch
                    THEN l.exactMatch[module]
                    ELSE ScanRules(l.patternRules, module, DEBUG)
       IN [l |-> [l EXCEPT !.levels = Put(@, module, level)], level |-> level]

\* IsEnabledFor with a strict comparison
IsEnabledFor_Strict(l, level, module) ==
  LET g == GetLevel(l, module)
  IN [l |-> g.l, result |-> level < g.level]

IsEnabledFor(l, level, module) ==
  LET g == GetLevel(l, module)
  IN [l |-> g.l, result |-> level <= g.level]

\* the formatter taken from getFormatter() on every call
getFormatterAndCacheCurrent_EveryCall(l, current) ==
  [l |-> [l EXCEPT !.formatter = current], formatter |-> current]

\* l.once.Do(...) and the formatter returned; current is getFormatter()
getFormatterAndCacheCurrent(l, current) ==
  LET l1 == IF l.once THEN l
            ELSE [l EXCEPT !.once = TRUE,
                           !.formatter = IF @ = Nil THEN current ELSE @]
  IN [l |-> l1, formatter |-> l1.formatter]

-----------------------------------------------------------------------------
(* The backend chain.  A world w holds the heaps and globals an operation  *)
(* reads and writes, w.calls what the sinks received, and the inputs of    *)
(* the operation: w.sinkErr, what a sink returns, and w.order, the order   *)
(* in which Go iterates an Annotator's Extras map.                         *)

RECURSIVE Backend_Log(_, _, _, _, _)
RECURSIVE moduleLeveled_Log(_, _, _, _, _)
RECURSIVE Annotator_Log(_, _, _, _, _)

\* a plain Backend's Log: a stub that records the call and returns w.sinkErr
Sink_Log(w, id, level, calldepth, rec) ==
  [w |-> [w EXCEPT !.calls = Append(@, [sink |-> id, level |-> level,
                                         calldepth |-> calldepth, rec |-> rec,
                                         err |-> w.sinkErr])],
   err |-> w.sinkErr, rec |-> rec]

\* moduleLeveled.Log that forwards whatever the level
moduleLeveled_Log_Unfiltered(w, id, level, calldepth, rec) ==
  LET en == IsEnabledFor(w.filters[id], level, rec.Module)
      fm == getFormatterAndCacheCurrent(en.l, w.formatter)
  IN Backend_Log([w EXCEPT !.filters[id] = fm.l], fm.l.backend, level,
                 calldepth + 1, [rec EXCEPT !.formatter = fm.formatter])

moduleLeveled_Log(w, id, level, calldepth, rec) ==
  LET en == IsEnabledFor(w.filters[id], level, rec.Module)
  IN IF en.result
     THEN LET fm == getFormatterAndCacheCurrent(en.l, w.formatter)
          IN Backend_Log([w EXCEPT !.filters[id] = fm.l], fm.l.backend, level,
                         calldepth + 1, [rec EXCEPT !.formatter = fm.formatter])
     ELSE [w |-> [w EXCEPT !.filters[id] = en.l], err |-> Nil, rec |-> rec]

\* a.Backend()
Annotator_Backend(w, id) ==
  IF w.annotators[id].backend = NilRef THEN w.defaultBackend
  ELSE w.annotators[id].backend

\* the Extras of a, in the iteration order w.order
RECURSIVE ExtrasInOrder(_, _)
ExtrasInOrder(extras, order) ==
  IF order = <<>> THEN <<>>
  ELSE IF Head(order) \in DOMAIN extras
       THEN <<extras[Head(order)]>> \o ExtrasInOrder(extras, Tail(order))
       ELSE ExtrasInOrder(extras, Tail(order))

\* Annotator.Log that puts its annotations in front of the record's own
Annotator_Log_Prepends(w, id, lvl, depth, rec) ==
  Backend_Log(w, Annotator_Backend(w, id), lvl, depth + 1,
              [rec EXCEPT !.Annotations =
                 ExtrasInOrder(w.annotators[id].Extras, w.order) \o @])

Annotator_Log(w, id, lvl, depth, rec) ==
  Backend_Log(w, Annotator_Backend(w, id), lvl, depth + 1,
              [rec EXCEPT !.Annotations =
                 @ \o ExtrasInOrder(w.annotators[id].Extras, w.order)])

\* dispatch of the interface call b.Log(level, calldepth, rec)
Backend_Log(w, b, level, calldepth, rec) ==
  CASE b.kind = "filter" -> moduleLeveled_Log(w, b.id, level, calldepth, rec)
    [] b.kind = "annotator" -> Annotator_Log(w, b.id, level, calldepth, rec)
    [] b.kind = "sink" -> Sink_Log(w, b.id, level, calldepth, rec)

-----------------------------------------------------------------------------
(* Annotaters *)

NilAnn == [kind |-> "nil"]
BaseAnn(name) == [kind |-> "base", name |-> name]

\* stacked{lower, higher}
Stacked(lower, higher) == [kind |-> "stacked", lower |-> lower, higher |-> higher]

\* a.Annotate(rec): a base annotater appends one annotation under its own
\* name; stacked.Annotate runs lower, then higher
RECURSIVE Annotate(_, _)
Annotate(a, rec) ==
  IF a.kind = "stacked"
  THEN Annotate(a.higher, Annotate(a.lower, rec))
  ELSE [rec EXCEPT !.Annotations = Append(@, [Key |-> a.name, Value |-> a.name])]

-----------------------------------------------------------------------------
(* Logger *)

\* &Logger{Module: module, OutputLevel: INFO}
GetLogger(module) ==
  [Module |-> module, OutputLevel |-> INFO, backend |-> NilRef,
   annotater |-> NilAnn]

MustGetLogger(module) == GetLogger(module)

\* l.Backend()
Logger_Backend(w, l) ==
  IF l.backend = NilRef THEN w.defaultBackend ELSE l.backend

\* the record a Logger creates: atomic.AddUint64(&sequenceNo, 1), then the
\* annotater when one is attached
MakeRecord(w, l, lvl, annotated) ==
  LET rec == NewRecord(w.sequenceNo + 1, l.Module, lvl)
  IN IF annotated /\ l.annotater # NilAnn THEN Annotate(l.annotater, rec)
     ELSE rec

\* l.Log(lvl, ...): the backend's error is dropped
Logger_Log(w, l, lvl) ==
  LET rec == MakeRecord(w, l, lvl, TRUE)
      r == Backend_Log([w EXCEPT !.sequenceNo = @ + 1], Logger_Backend(w, l),
                       lvl, 2, rec)
  IN [w |-> r.w, err |-> Nil, returns |-> FALSE, rec |-> r.rec]

\* l.Output(calldepth, s): always returns nil
Logger_Output(w, l, calldepth) ==
  LET rec == MakeRecord(w, l, l.OutputLevel, TRUE)
      r == Backend_Log([w EXCEPT !.sequenceNo = @ + 1], Logger_Backend(w, l),
                       l.OutputLevel, calldepth, rec)
  IN [w |-> r.w, err |-> Nil, returns |-> TRUE, rec |-> r.rec]

\* l.Outputf(adjdepth, ...): no annotater is run, nothing is returned
Logger_Outputf(w, l, adjdepth) ==
  LET rec == MakeRecord(w, l, l.OutputLevel, FALSE)
      r == Backend_Log([w EXCEPT !.sequenceNo = @ + 1], Logger_Backend(w, l),
                       l.OutputLevel, 1 + adjdepth, rec)
  IN [w |-> r.w, err |-> Nil, returns |-> FALSE, rec |-> r.rec]

\* the first definition of Re in re.go: the copy holds a alone
Re_replace(ls, i, a) == Append(ls, [ls[i] EXCEPT !.annotater = a])

\* the second definition of Re in re.go: an annotater already attached is
\* stacked under a
Re_stacked(ls, i, a) ==
  Append(ls, [ls[i] EXCEPT !.annotater = IF @ # NilAnn THEN Stacked(@, a) ELSE a])

\* Re that attaches to the logger it is called on as well as to the copy
Re_InPlace(impl, ls, i, a) ==
  LET new == IF impl = "replace" THEN Re_replace(ls, i, a) ELSE Re_stacked(ls, i, a)
  IN [new EXCEPT ![i] = new[Len(new)]]

\* l.Re(a) for the logger at i of the heap ls: the heap with the new logger
\* appended
Re(impl, ls, i, a) ==
  IF impl = "replace" THEN Re_replace(ls, i, a) ELSE Re_stacked(ls, i, a)

-----------------------------------------------------------------------------
(* moduleLeveled.SetLevel *)

\* SetLevel that keeps the cache when a pattern rule is added
SetLevel_KeepCache(w, id, level, module) ==
  LET meta == Contains(module, "*") \/ Contains(module, "?")
      bad == meta /\ Match(module, TestValue).err
      w1 == IF bad THEN Logger_Log(w, MustGetLogger(LoggerName), ERROR).w ELSE w
      l == w1.filters[id]
  IN IF meta /\ ~bad
     THEN [w1 EXCEPT !.filters[id] =
             [l EXCEPT !.patternRules = Append(@, [pattern |-> module, level |-> level])]]
     ELSE [w1 EXCEPT !.filters[id] =
             [l EXCEPT !.exactMatch = Put(@, module, level),
                       !.levels = Put(@, module, level)]]

\* SetLevel that clears the cache on every registration
SetLevel_ClearAlways(w, id, level, module) ==
  LET meta == Contains(module, "*") \/ Contains(module, "?")
      bad == meta /\ Match(module, TestValue).err
      w1 == IF bad THEN Logger_Log(w, MustGetLogger(LoggerName), ERROR).w ELSE w
      l == w1.filters[id]
  IN IF meta /\ ~bad
     THEN [w1 EXCEPT !.filters[id] =
             [l EXCEPT !.patternRules = Append(@, [pattern |-> module, level |-> level]),
                       !.levels = EmptyMap]]
     ELSE [w1 EXCEPT !.filters[id] =
             [l EXCEPT !.exactMatch = Put(@, module, level),
                       !.levels = Put(EmptyMap, module, level)]]

\* SetLevel that registers a malformed pattern as a pattern rule
SetLevel_BadIsGlob(w, id, level, module) ==
  LET meta == Contains(module, "*") \/ Contains(module, "?")
      bad == meta /\ Match(module, TestValue).err
      w1 == IF bad THEN Logger_Log(w, MustGetLogger(LoggerName), ERROR).w ELSE w
      l == w1.filters[id]
  IN IF meta
     THEN [w1 EXCEPT !.filters[id] =
             [l EXCEPT !.patternRules = Append(@, [pattern |-> module, level |-> level]),
                       !.levels = IF Cardinality(DOMAIN @) > 0 THEN EmptyMap ELSE @]]
     ELSE [w1 EXCEPT !.filters[id] =
             [l EXCEPT !.exactMatch = Put(@, module, level),
                       !.levels = Put(@, module, level)]]

SetLevel(w, id, level, module) ==
  LET meta == Contains(module, "*") \/ Contains(module, "?")
      bad == meta /\ Match(module, TestValue).err
      isglob == meta /\ ~bad
      \* MustGetLogger("logger").Error("Invalid module pattern %q", module)
      w1 == IF bad THEN Logger_Log(w, MustGetLogger(LoggerName), ERROR).w ELSE w
      l == w1.filters[id]
  IN IF isglob
     THEN [w1 EXCEPT !.filters[id] =
             [l EXCEPT !.patternRules = Append(@, [pattern |-> module, level |-> level]),
                       !.levels = IF Cardinality(DOMAIN @) > 0 THEN EmptyMap ELSE @]]
     ELSE [w1 EXCEPT !.filters[id] =
             [l EXCEPT !.exactMatch = Put(@, module, level),
                       !.levels = Put(@, module, level)]]

-----------------------------------------------------------------------------
(* State *)

\* the world an operation starts in; e and order are its inputs
World(e, order) ==
  [filters |-> filters, annotators |-> annotators,
   defaultBackend |-> defaultBackend, formatter |-> formatter,
   sequenceNo |-> sequenceNo, calls |-> <<>>, sinkErr |-> e, order |-> order]

\* the world an operation leaves
Commit(w) ==
  /\ filters' = w.filters
  /\ annotators' = w.annotators
  /\ defaultBackend' = w.defaultBackend
  /\ formatter' = w.formatter
  /\ sequenceNo' = w.sequenceNo
  /\ calls' = w.calls

Ret(op, level, module, value) ==
  [op |-> op, level |-> level, module |-> module, value |-> value]

\* the goroutines of the program
Goroutines == {1, 2}

\* no Record has been built yet
NoRecord ==
  [made |-> FALSE, fmt |-> <<>>, args |-> <<>>, message |-> <<>>,
   formatter |-> [output |-> <<>>], formatted |-> <<>>, renders |-> 0, formats |-> 0]

\* the package's init() has run Reset(): the default backend is a filter
\* around the standard-error sink, with SetLevel(DEBUG, "") applied
InitObjects ==
  /\ filters = << [NewModuleLeveled(SinkRef(1)) EXCEPT
                     !.exactMatch = Put(@, RootName, DEBUG),
                     !.levels = Put(@, RootName, DEBUG)] >>
  /\ annotators = <<>>
  /\ loggers = <<>>
  /\ defaultBackend = FilterRef(1)
  /\ formatter = "DefaultFormatter"
  /\ sequenceNo = 0
  /\ calls = <<>>
  /\ ret = Ret("init", Nil, Nil, Nil)
  /\ attached = <<>>
  /\ pc = [t \in Goroutines |-> "idle"]
  /\ local = [t \in Goroutines |-> Nil]
  /\ hist = <<>>
  /\ proc = "running"
  /\ record = NoRecord

Init == InitObjects /\ reImpl = Nil

\* re.go defines Logger.Re twice; a program is built with one of the two
ReImpls == {"replace", "stacked"}

InitRe == InitObjects /\ reImpl \in ReImpls

-----------------------------------------------------------------------------
(* Operations on a filter *)

IsGlob(module) ==
  /\ Contains(module, "*") \/ Contains(module, "?")
  /\ ~Match(module, TestValue).err

IsBad(module) ==
  /\ Contains(module, "*") \/ Contains(module, "?")
  /\ Match(module, TestValue).err

CallSetLevel(id, level, module) ==
  /\ id \in DOMAIN filters
  /\ IsGlob(module) => Len(filters[id].patternRules) < MaxRules
  /\ IsBad(module) => sequenceNo < MaxSeq
  /\ \E e \in SinkErrors : Commit(SetLevel(World(e, <<>>), id, level, module))
  /\ ret' = Ret("SetLevel", level, module, [filter |-> id])
  /\ UNCHANGED <<loggers, reImpl, attached>>
  /\ UNCHANGED callVars

CallGetLevel(id, module) ==
  /\ id \in DOMAIN filters
  /\ LET g == GetLevel(filters[id], module)
     IN /\ filters' = [filters EXCEPT ![id] = g.l]
        /\ ret' = Ret("GetLevel", Nil, module, g.level)
  /\ calls' = <<>>
  /\ UNCHANGED <<annotators, loggers, defaultBackend, formatter, sequenceNo, reImpl,
                 attached>>
  /\ UNCHANGED callVars

CallIsEnabledFor(id, level, module) ==
  /\ id \in DOMAIN filters
  /\ LET en == IsEnabledFor(filters[id], level, module)
     IN /\ filters' = [filters EXCEPT ![id] = en.l]
        /\ ret' = Ret("IsEnabledFor", level, module, en.result)
  /\ calls' = <<>>
  /\ UNCHANGED <<annotators, loggers, defaultBackend, formatter, sequenceNo, reImpl,
                 attached>>
  /\ UNCHANGED callVars

-----------------------------------------------------------------------------
(* Operations that build and use the backend chain *)

FilterRefs == { FilterRef(i) : i \in DOMAIN filters }
AnnotatorRefs == { AnnotatorRef(i) : i \in DOMAIN annotators }
LeveledRefs == FilterRefs \cup AnnotatorRefs

\* the plain backends: the standard-error sink of Reset and one other
SinkRefs == { SinkRef(1), SinkRef(2) }

CallAddModuleLevel(b) ==
  /\ b \in SinkRefs \cup LeveledRefs
  /\ ~IsLeveledBackend(b) => Len(filters) < MaxFilters
  /\ LET r == AddModuleLevel(filters, b)
     IN /\ filters' = r.filters
        /\ ret' = Ret("AddModuleLevel", Nil, Nil,
                      [backend |-> b, leveled |-> r.leveled])
  /\ calls' = <<>>
  /\ UNCHANGED <<annotators, loggers, defaultBackend, formatter, sequenceNo, reImpl,
                 attached>>
  /\ UNCHANGED callVars

CallNewAnnotator(b) ==
  /\ b \in LeveledRefs \cup {NilRef}
  /\ Len(annotators) < MaxAnnotators
  /\ annotators' = Append(annotators, NewAnnotator(b))
  /\ ret' = Ret("NewAnnotator", Nil, Nil, [backend |-> b])
  /\ calls' = <<>>
  /\ UNCHANGED <<filters, loggers, defaultBackend, formatter, sequenceNo, reImpl,
                 attached>>
  /\ UNCHANGED callVars

\* b.Log(level, calldepth, rec) on a leveled backend, with a record for module
CallBackendLog(b, level, calldepth, module, e) ==
  /\ b \in LeveledRefs
  /\ LET r == Backend_Log(World(e, <<>>), b, level, calldepth,
                          NewRecord(0, module, level))
     IN /\ Commit(r.w)
        /\ ret' = Ret("Log", level, module,
                      [backend |-> b, calldepth |-> calldepth, err |-> r.err,
                       rec |-> r.rec])
  /\ UNCHANGED <<loggers, reImpl, attached>>
  /\ UNCHANGED callVars

-----------------------------------------------------------------------------
(* Operations on loggers *)

CallGetLogger(module, max) ==
  /\ Len(loggers) < max
  /\ loggers' = Append(loggers, GetLogger(module))
  /\ attached' = Append(attached, <<>>)
  /\ ret' = Ret("GetLogger", Nil, module, Nil)
  /\ calls' = <<>>
  /\ UNCHANGED <<filters, annotators, defaultBackend, formatter, sequenceNo, reImpl>>
  /\ UNCHANGED callVars

\* l.SetBackend(b)
CallLoggerSetBackend(i, b) ==
  /\ i \in DOMAIN loggers
  /\ b \in LeveledRefs
  /\ loggers' = [loggers EXCEPT ![i].backend = b]
  /\ ret' = Ret("SetBackend", Nil, Nil, [logger |-> i, backend |-> b])
  /\ calls' = <<>>
  /\ UNCHANGED <<filters, annotators, defaultBackend, formatter, sequenceNo, reImpl,
                 attached>>
  /\ UNCHANGED callVars

CallRe(i, a) ==
  /\ i \in DOMAIN loggers
  /\ Len(loggers) < MaxLoggers
  /\ loggers' = Re(reImpl, loggers, i, a)
  /\ attached' = Append(attached, Append(attached[i], a.name))
  /\ ret' = Ret("Re", Nil, Nil, [logger |-> i, annotater |-> a])
  /\ calls' = <<>>
  /\ UNCHANGED <<filters, annotators, defaultBackend, formatter, sequenceNo, reImpl>>
  /\ UNCHANGED callVars

\* what a Logger operation leaves in ret
LoggerRet(op, i, lvl, r) ==
  Ret(op, lvl, loggers[i].Module,
      [logger |-> i, err |-> r.err, returns |-> r.returns, rec |-> r.rec])

CallLoggerLog(i, lvl, e) ==
  /\ i \in DOMAIN loggers
  /\ sequenceNo < MaxSeq
  /\ LET r == Logger_Log(World(e, <<>>), loggers[i], lvl)
     IN Commit(r.w) /\ ret' = LoggerRet("Logger.Log", i, lvl, r)
  /\ UNCHANGED <<loggers, reImpl, attached>>
  /\ UNCHANGED callVars

CallLoggerOutput(i, calldepth, e) ==
  /\ i \in DOMAIN loggers
  /\ sequenceNo < MaxSeq
  /\ LET r == Logger_Output(World(e, <<>>), loggers[i], calldepth)
     IN Commit(r.w) /\ ret' = LoggerRet("Logger.Output", i, loggers[i].OutputLevel, r)
  /\ UNCHANGED <<loggers, reImpl, attached>>
  /\ UNCHANGED callVars

CallLoggerOutputf(i, adjdepth, e) ==
  /\ i \in DOMAIN loggers
  /\ sequenceNo < MaxSeq
  /\ LET r == Logger_Outputf(World(e, <<>>), loggers[i], adjdepth)
     IN Commit(r.w) /\ ret' = LoggerRet("Logger.Outputf", i, loggers[i].OutputLevel, r)
  /\ UNCHANGED <<loggers, reImpl, attached>>
  /\ UNCHANGED callVars

-----------------------------------------------------------------------------
(* The level rules of one filter: SetLevel, GetLevel, IsEnabledFor *)

NextLevels ==
  \/ \E level \in SetLevels, module \in ModuleNames \cup GlobPatterns :
        CallSetLevel(1, level, module)
  \/ \E module \in ModuleNames \cup {RootName} : CallGetLevel(1, module)
  \/ \E level \in Level, module \in ModuleNames : CallIsEnabledFor(1, level, module)

SpecLevels == Init /\ [][NextLevels]_vars

-----------------------------------------------------------------------------
(* Specifications of the backend chain and of Re *)

NameAB == <<"a", ".", "b">>

\* the levels records are logged at
LogLevels == { CRITICAL, ERROR, DEBUG }

\* one filter: its rules, and records passed to its Log
NextFilterLog ==
  \/ \E level \in SetLevels, module \in {NameAB, <<"*">>} :
        CallSetLevel(1, level, module)
  \/ \E level \in LogLevels, module \in ModuleNames, e \in SinkErrors :
        CallBackendLog(FilterRef(1), level, 2, module, e)

SpecFilterLog == Init /\ [][NextFilterLog]_vars

\* a logger, an Annotator and the default filter in front of the sink
NextChain ==
  \/ CallSetLevel(1, WARNING, NameAB)
  \/ \E b \in LeveledRefs \cup {NilRef} : CallNewAnnotator(b)
  \/ CallGetLogger(NameAB, MaxChainLoggers)
  \/ \E i \in DOMAIN loggers, b \in LeveledRefs : CallLoggerSetBackend(i, b)
  \/ \E b \in LeveledRefs, e \in SinkErrors : CallBackendLog(b, ERROR, 2, NameAB, e)
  \/ \E i \in DOMAIN loggers, e \in SinkErrors : CallLoggerLog(i, ERROR, e)
  \/ \E i \in DOMAIN loggers, e \in SinkErrors : CallLoggerOutput(i, 2, e)
  \/ \E i \in DOMAIN loggers, e \in SinkErrors : CallLoggerOutputf(i, 1, e)

SpecChain == Init /\ [][NextChain]_vars

\* wrapping backends: AddModuleLevel and NewAnnotator
NextWrap ==
  \/ \E b \in SinkRefs \cup LeveledRefs : CallAddModuleLevel(b)
  \/ \E b \in LeveledRefs \cup {NilRef} : CallNewAnnotator(b)
  \/ \E f \in DOMAIN filters : CallSetLevel(f, WARNING, NameAB)
  \/ \E f \in DOMAIN filters : CallGetLevel(f, NameAB)

SpecWrap == Init /\ [][NextWrap]_vars

\* the annotaters given to Re
Annotaters == { BaseAnn("A"), BaseAnn("B") }

\* loggers, Re and the calls that create records
NextRe ==
  \/ CallGetLogger(NameAB, MaxLoggers)
  \/ \E i \in DOMAIN loggers, a \in Annotaters : CallRe(i, a)
  \/ \E i \in DOMAIN loggers : CallLoggerLog(i, INFO, Nil)
  \/ \E i \in DOMAIN loggers : CallLoggerOutput(i, 2, Nil)
  \/ \E i \in DOMAIN loggers : CallLoggerOutputf(i, 1, Nil)

SpecRe == InitRe /\ [][NextRe]_vars

-----------------------------------------------------------------------------
(* Claims about the level rules, checked under SpecLevels *)

\* the filter that SpecLevels operates on
TheFilter == filters[1]

QueryNames == ModuleNames \cup {RootName}

MetaFree(module) == ~Contains(module, "*") /\ ~Contains(module, "?")

\* the positions of the pattern rules of l that match module
MatchingRules(l, module) ==
  { i \in 1..Len(l.patternRules) : Glob(l.patternRules[i].pattern, module) }

SetMax(S) == CHOOSE x \in S : \A y \in S : y <= x

\* resolution over the rule set of l without the cache: the exact match, else
\* the matching pattern registered last, else DEBUG
Resolve(l, module) ==
  IF module \in DOMAIN l.exactMatch THEN l.exactMatch[module]
  ELSE IF MatchingRules(l, module) = {} THEN DEBUG
  ELSE l.patternRules[SetMax(MatchingRules(l, module))].level

\* C1: IsEnabledFor(L, m) returns true exactly when L <= GetLevel(m); being
\* enabled for L implies being enabled for every more severe level, and
\* CRITICAL is enabled for every module in every state.
C1_EnabledIffAtMostLevel ==
  /\ ret.op = "IsEnabledFor" =>
       (ret.value <=> ret.level <= GetLevel(TheFilter, ret.module).level)
  /\ \A m \in QueryNames : IsEnabledFor(TheFilter, CRITICAL, m).result
  /\ \A m \in QueryNames, L \in Level, K \in Level :
       (K <= L /\ IsEnabledFor(TheFilter, L, m).result)
         => IsEnabledFor(TheFilter, K, m).result

\* an IsEnabledFor call that returned false for a module whose level was set
C1_Witness ==
  /\ ret.op = "IsEnabledFor"
  /\ ret.value = FALSE
  /\ ret.level = ERROR
  /\ ret.module \in DOMAIN TheFilter.exactMatch

\* C2: every entry of the resolution cache equals the cache-less resolution
\* over the current rule set, and so does the level GetLevel returned.
C2_CacheAgreesWithRules ==
  /\ \A m \in DOMAIN TheFilter.levels : TheFilter.levels[m] = Resolve(TheFilter, m)
  /\ ret.op = "GetLevel" => ret.value = Resolve(TheFilter, ret.module)

\* a lookup answered by a pattern rule, with another module still cached
C2_Witness ==
  /\ ret.op = "GetLevel"
  /\ ret.module \notin DOMAIN TheFilter.exactMatch
  /\ MatchingRules(TheFilter, ret.module) # {}
  /\ ret.value # DEBUG
  /\ Cardinality(DOMAIN TheFilter.levels) >= 2

\* C3: an exact-match rule for m overrides every pattern rule matching m, in
\* either registration order: SetLevel(Le, m) leaves Le as m's exact match,
\* and GetLevel(m) returns the exact match whenever m has one.
C3_ExactOverridesPattern ==
  /\ (ret.op = "SetLevel" /\ MetaFree(ret.module)) =>
       /\ ret.module \in DOMAIN TheFilter.exactMatch
       /\ TheFilter.exactMatch[ret.module] = ret.level
  /\ \A m \in DOMAIN TheFilter.exactMatch :
       GetLevel(TheFilter, m).level = TheFilter.exactMatch[m]
  /\ (ret.op = "GetLevel" /\ ret.module \in DOMAIN TheFilter.exactMatch) =>
       ret.value = TheFilter.exactMatch[ret.module]

\* a pattern with another level was registered after the exact match it covers
C3_Witness ==
  /\ ret.op = "SetLevel"
  /\ ~MetaFree(ret.module)
  /\ \E m \in ModuleNames :
       /\ m \in DOMAIN TheFilter.exactMatch
       /\ Glob(ret.module, m)
       /\ TheFilter.exactMatch[m] # ret.level

\* C4: for a module without an exact match GetLevel returns the level of the
\* matching pattern registered last, and DEBUG when no pattern matches.
C4_LastMatchWins ==
  \A m \in QueryNames :
    m \notin DOMAIN TheFilter.exactMatch =>
      LET M == MatchingRules(TheFilter, m)
          expected == IF M = {} THEN DEBUG
                      ELSE TheFilter.patternRules[SetMax(M)].level
      IN /\ GetLevel(TheFilter, m).level = expected
         /\ (ret.op = "GetLevel" /\ ret.module = m) => ret.value = expected

\* two patterns with different levels match the module that was looked up
C4_Witness ==
  /\ ret.op = "GetLevel"
  /\ ret.module \notin DOMAIN TheFilter.exactMatch
  /\ \E i \in MatchingRules(TheFilter, ret.module) :
     \E j \in MatchingRules(TheFilter, ret.module) :
        /\ i < j
        /\ TheFilter.patternRules[i].level # TheFilter.patternRules[j].level

\* the entries of the map m other than the one for key k
Others(m, k) == [x \in DOMAIN m \ {k} |-> m[x]]

\* C5: SetLevel with a metacharacter-free name changes only that name's
\* exact-match entry and cache entry: the pattern rules, the other exact
\* matches and the other cached levels stay as they were.
C5_ExactSetLevelFrame ==
  [][(ret'.op = "SetLevel" /\ MetaFree(ret'.module)) =>
        /\ filters'[1].patternRules = filters[1].patternRules
        /\ Others(filters'[1].exactMatch, ret'.module)
             = Others(filters[1].exactMatch, ret'.module)
        /\ Others(filters'[1].levels, ret'.module)
             = Others(filters[1].levels, ret'.module)]_vars

\* an exact match was set while another module was cached under a pattern rule
C5_Witness ==
  /\ ret.op = "SetLevel"
  /\ MetaFree(ret.module)
  /\ TheFilter.patternRules # <<>>
  /\ \E m \in DOMAIN TheFilter.levels :
       /\ m # ret.module
       /\ m \notin DOMAIN TheFilter.exactMatch
       /\ TheFilter.levels[m] # ret.level

-----------------------------------------------------------------------------
(* Claims about the backend chain *)

\* C6: when the filter's Log is called with a level that is not enabled for
\* the record's module, the wrapped backend is not invoked, nil is returned
\* and no formatter is attached to the record; when the level is enabled the
\* wrapped backend is invoked exactly once, with calldepth + 1.
C6_DisabledLogIsNoOp ==
  (ret.op = "Log" /\ ret.value.backend.kind = "filter") =>
    LET l == filters[ret.value.backend.id]
    IN IF IsEnabledFor(l, ret.level, ret.module).result
       THEN /\ Len(calls) = 1
            /\ calls[1].sink = l.backend.id
            /\ calls[1].level = ret.level
            /\ calls[1].calldepth = ret.value.calldepth + 1
       ELSE /\ calls = <<>>
            /\ ret.value.err = Nil
            /\ ret.value.rec.formatter = Nil

\* a record was dropped by a filter that has forwarded records before
C6_Witness ==
  /\ ret.op = "Log"
  /\ ret.value.backend.kind = "filter"
  /\ ~IsEnabledFor(filters[ret.value.backend.id], ret.level, ret.module).result
  /\ filters[ret.value.backend.id].once
  /\ calls = <<>>

\* C7: an error returned by the terminal sink is the result of every stage it
\* passes through: the filter's Log, the Annotator's Log and Logger.Output.
C7_SinkErrorPropagates ==
  (ret.op \in {"Log", "Logger.Output"} /\ calls # <<>>) =>
    ret.value.err = calls[Len(calls)].err

\* C8: AddModuleLevel returns a leveled backend as it is and creates no
\* filter; a backend that is not leveled gets a fresh filter with empty exact
\* matches, pattern rules and cache; applied to its own result it returns the
\* same backend and leaves the filters alone.
C8_AddModuleLevelIdempotent ==
  [][ret'.op = "AddModuleLevel" =>
       LET b == ret'.value.backend
           r == ret'.value.leveled
       IN /\ IsLeveledBackend(b) => (r = b /\ filters' = filters)
          /\ ~IsLeveledBackend(b) =>
               /\ r = FilterRef(Len(filters) + 1)
               /\ Len(filters') = Len(filters) + 1
               /\ \A i \in DOMAIN filters : filters'[i] = filters[i]
               /\ filters'[r.id].backend = b
               /\ filters'[r.id].levels = EmptyMap
               /\ filters'[r.id].exactMatch = EmptyMap
               /\ filters'[r.id].patternRules = <<>>
          /\ AddModuleLevel(filters', r) = [filters |-> filters', leveled |-> r]]_vars

\* AddModuleLevel was given a filter that holds a rule of its own
C8_Witness ==
  /\ ret.op = "AddModuleLevel"
  /\ ret.value.backend.kind = "filter"
  /\ ret.value.leveled = ret.value.backend
  /\ ret.value.backend.id = 2
  /\ NameAB \in DOMAIN filters[2].exactMatch

-----------------------------------------------------------------------------
(* Claims about Re *)

LoggerOps == {"Logger.Log", "Logger.Output", "Logger.Outputf"}

\* the keys of a record's annotations, in order
Keys(anns) == [i \in DOMAIN anns |-> anns[i].Key]

Range(f) == { f[i] : i \in DOMAIN f }

\* C9: every record logged through a logger carries the annotations of all
\* the annotaters attached by the Re calls that led to it, each once, in
\* attachment order.
C9_AllAnnotatersInOrder ==
  ret.op \in LoggerOps =>
    Keys(ret.value.rec.Annotations) = attached[ret.value.logger]

\* C10: Re leaves the logger it is called on as it was and returns a new
\* logger with the same module, output level and backend and one annotater;
\* a record logged through a logger carries no annotation of an annotater
\* that was attached only to a logger derived from it.
C10_ReLeavesOriginal ==
  [][
      /\ (ret'.op = "Re" =>
            LET i == ret'.value.logger
                n == Len(loggers')
            IN /\ n = Len(loggers) + 1
               /\ \A j \in DOMAIN loggers : loggers'[j] = loggers[j]
               /\ loggers'[n].Module = loggers[i].Module
               /\ loggers'[n].OutputLevel = loggers[i].OutputLevel
               /\ loggers'[n].backend = loggers[i].backend
               /\ loggers'[n].annotater # NilAnn)
      /\ (ret'.op \in LoggerOps =>
            Range(Keys(ret'.value.rec.Annotations))
              \subseteq Range(attached[ret'.value.logger]))
    ]_vars

\* a record was logged through a logger after Re had derived another logger
\* from it with an annotater the record does not carry
C10_Witness ==
  /\ ret.op = "Logger.Log"
  /\ calls # <<>>
  /\ \E j \in DOMAIN attached :
       /\ j > ret.value.logger
       /\ Len(attached[j]) = Len(attached[ret.value.logger]) + 1
       /\ SubSeq(attached[j], 1, Len(attached[j]) - 1) = attached[ret.value.logger]
       /\ attached[j][Len(attached[j])] \notin Range(Keys(calls[1].rec.Annotations))
       /\ attached[ret.value.logger] # <<>>

-----------------------------------------------------------------------------
(* Goroutines that create records: Logger.Log, Output and Outputf step by  *)
(* step. The counter is shared; everything after the increment works on    *)
(* the record the goroutine has built.                                     *)

NoLocal == [op |-> Nil, logger |-> 0, arg |-> Nil, id |-> 0, loaded |-> 0]

\* the records of the history
Records == { k \in DOMAIN hist : hist[k].ev = "record" }

\* the calls that have started and not yet handed their record on
InFlight == { t \in Goroutines : pc[t] # "idle" }

\* goroutine t enters l.Log(lvl, ...), l.Output(calldepth, ...) or
\* l.Outputf(adjdepth, ...) on the logger at i; arg is lvl, calldepth or adjdepth
GoCall(t, op, i, arg) ==
  /\ proc = "running"
  /\ pc[t] = "idle"
  /\ i \in DOMAIN loggers
  /\ Cardinality(Records) + Cardinality(InFlight) < MaxSeq
  /\ pc' = [pc EXCEPT ![t] = "add"]
  /\ local' = [local EXCEPT ![t] = [NoLocal EXCEPT !.op = op, !.logger = i, !.arg = arg]]
  /\ UNCHANGED <<filters, annotators, loggers, defaultBackend, formatter, sequenceNo,
                 reImpl, calls, ret, attached, hist, proc, record>>

\* an increment made of a load and a store, which another goroutine can
\* come between
AddUint64_LoadStore(t) ==
  /\ \/ /\ pc[t] = "add"
        /\ pc' = [pc EXCEPT ![t] = "store"]
        /\ local' = [local EXCEPT ![t].loaded = sequenceNo]
        /\ UNCHANGED sequenceNo
     \/ /\ pc[t] = "store"
        /\ pc' = [pc EXCEPT ![t] = "send"]
        /\ sequenceNo' = local[t].loaded + 1
        /\ local' = [local EXCEPT ![t].id = local[t].loaded + 1]
  /\ UNCHANGED <<filters, annotators, loggers, defaultBackend, formatter,
                 reImpl, calls, ret, attached, hist, proc, record>>

\* an increment that yields the next value and does not store it
AddUint64_NoStore(t) ==
  /\ pc[t] = "add"
  /\ pc' = [pc EXCEPT ![t] = "send"]
  /\ local' = [local EXCEPT ![t].id = sequenceNo + 1]
  /\ UNCHANGED <<filters, annotators, loggers, defaultBackend, formatter, sequenceNo,
                 reImpl, calls, ret, attached, hist, proc, record>>

\* Id: atomic.AddUint64(&sequenceNo, 1): one indivisible step that yields the
\* new value (the counter is a uint64: it wraps after 2^64 records, far
\* beyond MaxSeq)
AddUint64(t) ==
  /\ proc = "running"
  /\ pc[t] = "add"
  /\ pc' = [pc EXCEPT ![t] = "send"]
  /\ sequenceNo' = sequenceNo + 1
  /\ local' = [local EXCEPT ![t].id = sequenceNo + 1]
  /\ UNCHANGED <<filters, annotators, loggers, defaultBackend, formatter,
                 reImpl, calls, ret, attached, hist, proc, record>>

\* the calls that log and then end the process or panic
FatalClass == { "Fatal", "Fatalf", "Fatalln" }
PanicClass == { "Panic", "Panicf", "Panicln" }

\* a call that returns whatever it logged
AfterLog_Returns(op) == "idle"

\* where a call stands when l.Log has returned: before os.Exit(1), before
\* panic(s), or back in its caller
AfterLog(op) ==
  IF op \in FatalClass THEN "exit"
  ELSE IF op \in PanicClass THEN "panic"
  ELSE "idle"

\* the rest of the call of goroutine t in the world w: the record is built
\* with the id the goroutine got, annotated and handed to the backend
GoRest(w, t) ==
  LET l == loggers[local[t].logger]
      w0 == [w EXCEPT !.sequenceNo = local[t].id - 1]
  IN CASE local[t].op = "Logger.Log" -> Logger_Log(w0, l, local[t].arg)
       [] local[t].op = "Logger.Output" -> Logger_Output(w0, l, local[t].arg)
       [] local[t].op = "Logger.Outputf" -> Logger_Outputf(w0, l, local[t].arg)
       [] local[t].op \in FatalClass \cup PanicClass -> Logger_Log(w0, l, CRITICAL)

\* a record created, as the history keeps it
Created(t, rec) == [ev |-> "record", thread |-> t, id |-> rec.Id, level |-> rec.Level]

GoSend(t, e) ==
  /\ proc = "running"
  /\ pc[t] = "send"
  /\ LET r == GoRest(World(e, <<>>), t)
         lvl == IF local[t].op \in {"Logger.Output", "Logger.Outputf"}
                THEN loggers[local[t].logger].OutputLevel
                ELSE local[t].arg
     IN /\ Commit([r.w EXCEPT !.sequenceNo = sequenceNo])
        /\ ret' = LoggerRet(local[t].op, local[t].logger, lvl, r)
        /\ hist' = Append(hist, Created(t, r.rec))
  /\ pc' = [pc EXCEPT ![t] = AfterLog(local[t].op)]
  /\ local' = [local EXCEPT ![t] = IF AfterLog(local[t].op) = "idle" THEN Nil ELSE @]
  /\ UNCHANGED <<loggers, reImpl, attached, proc, record>>

\* what the three calls are given
GoCalls == { <<"Logger.Log", ERROR>>, <<"Logger.Output", 2>>, <<"Logger.Outputf", 1>> }

\* goroutines that log through the same loggers at the same time
NextIds ==
  \/ CallGetLogger(NameAB, MaxChainLoggers)
  \/ \E t \in Goroutines, c \in GoCalls, i \in DOMAIN loggers : GoCall(t, c[1], i, c[2])
  \/ \E t \in Goroutines : AddUint64(t)
  \/ \E t \in Goroutines : GoSend(t, Nil)

SpecIds == Init /\ [][NextIds]_vars

\* C11: no two records created by concurrent Log, Output and Outputf calls
\* have the same id
C11_IdsUnique ==
  \A j, k \in Records : j # k => hist[j].id # hist[k].id

\* two goroutines were in their calls at the same time: the one that
\* incremented the counter last handed its record on first
C11_Witness ==
  /\ Len(hist) >= 2
  /\ hist[1].thread # hist[2].thread
  /\ hist[1].id > hist[2].id

-----------------------------------------------------------------------------
(* Reset and InitForTesting *)

MaxResets == 2

\* the package's SetBackend(backend): the default backend becomes the
\* leveled backend AddModuleLevel makes of backend, and is returned
SetBackend(w, backend) ==
  LET r == AddModuleLevel(w.filters, backend)
  IN [w |-> [w EXCEPT !.filters = r.filters, !.defaultBackend = r.leveled],
      leveled |-> r.leveled]

\* Reset(): the counter is set to 0 by a plain assignment; the default
\* backend is a new filter around a standard-error sink
Reset(w) ==
  LET s == SetBackend([w EXCEPT !.sequenceNo = 0], SinkRef(1))
      w1 == SetLevel(s.w, s.leveled.id, DEBUG, RootName)
  IN [w1 EXCEPT !.formatter = "DefaultFormatter"]

\* a Reset as the history keeps it: by is the call that made it
ResetEvent == [ev |-> "reset", thread |-> 0, id |-> 0, level |-> Nil, by |-> "Reset"]

Resets == { k \in DOMAIN hist : hist[k].ev = "reset" }

CallReset(t) ==
  /\ proc = "running"
  /\ pc[t] = "idle"
  /\ Cardinality(Resets) < MaxResets
  /\ Commit(Reset(World(Nil, <<>>)))
  /\ ret' = Ret("Reset", Nil, Nil, Nil)
  /\ hist' = Append(hist, ResetEvent)
  /\ UNCHANGED <<loggers, reImpl, attached, pc, local, proc, record>>

\* InitForTesting(level): Reset(), a memory backend, a filter around it with
\* SetLevel(level, ""), SetBackend of that filter; the memory backend is returned
CallInitForTesting(t, level) ==
  /\ proc = "running"
  /\ pc[t] = "idle"
  /\ Cardinality(Resets) < MaxResets
  /\ \E w1 \in { Reset(World(Nil, <<>>)) } :
     \E memoryBackend \in { SinkRef(2) } :
     \E leveledBackend \in { AddModuleLevel(w1.filters, memoryBackend) } :
     \E w2 \in { SetLevel([w1 EXCEPT !.filters = leveledBackend.filters],
                          leveledBackend.leveled.id, level, RootName) } :
     \E s \in { SetBackend(w2, leveledBackend.leveled) } :
       /\ Commit(s.w)
       /\ ret' = Ret("InitForTesting", level, Nil, memoryBackend)
  /\ hist' = Append(hist, [ResetEvent EXCEPT !.by = "InitForTesting", !.level = level])
  /\ UNCHANGED <<loggers, reImpl, attached, pc, local, proc, record>>

\* one goroutine that logs, resets the package and logs again
NextLifetime ==
  \/ CallGetLogger(NameAB, MaxChainLoggers)
  \/ \E c \in GoCalls, i \in DOMAIN loggers : GoCall(1, c[1], i, c[2])
  \/ AddUint64(1)
  \/ GoSend(1, Nil)
  \/ CallReset(1)
  \/ \E level \in SetLevels : CallInitForTesting(1, level)

SpecLifetime == Init /\ [][NextLifetime]_vars

\* C12 as stated: of two records a goroutine creates one after the other,
\* under any operations of the package, the later has the greater id
C12_IdsIncrease ==
  \A j, k \in Records :
    (j < k /\ hist[j].thread = hist[k].thread) => hist[j].id < hist[k].id

\* C12 amended: of two records a goroutine creates one after the other with
\* no Reset or InitForTesting between them, the later has the greater id
C12_IdsIncreaseBetweenResets ==
  \A j, k \in Records :
    (/\ j < k
     /\ hist[j].thread = hist[k].thread
     /\ \A m \in Resets : m < j \/ m > k)
    => hist[j].id < hist[k].id

\* two records created one after the other after a Reset
C12_Witness ==
  \E j, k \in Records :
    /\ j < k
    /\ hist[j].thread = hist[k].thread
    /\ \A m \in Resets : m < j \/ m > k
    /\ \E m \in Resets : m < j

-----------------------------------------------------------------------------
(* Record.Message and Record.Formatted *)

MaxHist == 3

\* the argument that implements Redactor, and what its Redacted() returns
Secret == "S"
Redacted == "#"

\* fmt.Sprintf(format, args...), with "%" for a verb: each verb is replaced
\* by the next argument, "!" where none is left
RECURSIVE Sprintf(_, _)
Sprintf(format, args) ==
  IF format = <<>> THEN <<>>
  ELSE IF Head(format) = "%"
       THEN IF args = <<>> THEN <<"!">> \o Sprintf(Tail(format), args)
            ELSE <<Head(args)>> \o Sprintf(Tail(format), Tail(args))
       ELSE <<Head(format)>> \o Sprintf(Tail(format), args)

\* the record Logger.Log builds from format and args; formatter is what the
\* filter attaches: a formatter is given by what its Format writes for this
\* record. message is the pointer: <<>> for nil, else the string it points
\* to. renders and formats count the runs of Sprintf and of Format
RecordOf(format, args, fmtr) ==
  [made |-> TRUE, fmt |-> format, args |-> args, message |-> <<>>, formatter |-> fmtr,
   formatted |-> <<>>, renders |-> 0, formats |-> 0]

\* r.Message() that renders on every call
Message_NoMemo(r) ==
  LET args == [i \in DOMAIN r.args |-> IF r.args[i] = Secret THEN Redacted ELSE r.args[i]]
      msg == Sprintf(r.fmt, args)
  IN [r |-> [r EXCEPT !.args = args, !.message = <<msg>>, !.renders = @ + 1],
      result |-> msg]

\* r.Message(): the record it leaves and the string it returns
Message(r) ==
  IF r.message = <<>>
  THEN LET args == [i \in DOMAIN r.args |->
                      IF r.args[i] = Secret THEN Redacted ELSE r.args[i]]
           msg == Sprintf(r.fmt, args)
       IN [r |-> [r EXCEPT !.args = args, !.message = <<msg>>, !.renders = @ + 1],
           result |-> msg]
  ELSE [r |-> r, result |-> r.message[1]]

\* r.Formatted(calldepth): the record it leaves and the string it returns
Formatted(r, calldepth) ==
  IF r.formatted = <<>>
  THEN [r |-> [r EXCEPT !.formatted = r.formatter.output, !.formats = @ + 1],
        result |-> r.formatter.output]
  ELSE [r |-> r, result |-> r.formatted]

Templates == { <<"%">>, <<"a", "%">> }
ArgValues == { "1", "2", Secret }
Formatters == { [output |-> <<>>], [output |-> <<"m">>] }

CallNewRecord(format, args, fmtr) ==
  /\ ~record.made
  /\ record' = RecordOf(format, args, fmtr)
  /\ ret' = Ret("NewRecord", Nil, Nil, Nil)
  /\ UNCHANGED <<filters, annotators, loggers, defaultBackend, formatter, sequenceNo,
                 reImpl, calls, attached, pc, local, hist, proc>>

\* the caller writes v to the slice it passed as args
SetArg(i, v) ==
  /\ record.made
  /\ i \in DOMAIN record.args
  /\ record.args[i] # v
  /\ record' = [record EXCEPT !.args[i] = v]
  /\ ret' = Ret("SetArg", Nil, Nil, Nil)
  /\ UNCHANGED <<filters, annotators, loggers, defaultBackend, formatter, sequenceNo,
                 reImpl, calls, attached, pc, local, hist, proc>>

\* a call of Message or Formatted, as the history keeps it
Returned(op, value) == [ev |-> op, thread |-> 0, id |-> 0, level |-> Nil, value |-> value]

CallMessage ==
  /\ record.made
  /\ Len(hist) < MaxHist
  /\ LET m == Message(record)
     IN /\ record' = m.r
        /\ ret' = Ret("Message", Nil, Nil, m.result)
        /\ hist' = Append(hist, Returned("Message", m.result))
  /\ UNCHANGED <<filters, annotators, loggers, defaultBackend, formatter, sequenceNo,
                 reImpl, calls, attached, pc, local, proc>>

CallFormatted(calldepth) ==
  /\ record.made
  /\ Len(hist) < MaxHist
  /\ LET f == Formatted(record, calldepth)
     IN /\ record' = f.r
        /\ ret' = Ret("Formatted", Nil, Nil, f.result)
        /\ hist' = Append(hist, Returned("Formatted", f.result))
  /\ UNCHANGED <<filters, annotators, loggers, defaultBackend, formatter, sequenceNo,
                 reImpl, calls, attached, pc, local, proc>>

\* one record, its Message and Formatted, and writes to its arguments
NextRecord ==
  \/ \E format \in Templates, a \in ArgValues, fmtr \in Formatters :
        CallNewRecord(format, <<a>>, fmtr)
  \/ \E i \in {1}, v \in ArgValues : SetArg(i, v)
  \/ CallMessage
  \/ CallFormatted(2)

SpecRecord == Init /\ [][NextRecord]_vars

Messages == { k \in DOMAIN hist : hist[k].ev = "Message" }

\* C13: the message of a record is rendered at most once, and every call of
\* Message returns what the first call returned, whatever was written to the
\* arguments in between
C13_MessageMemoized ==
  /\ record.renders <= 1
  /\ \A j, k \in Messages : hist[j].value = hist[k].value

\* Message was called twice, and the second call came after a write to the
\* arguments that would have rendered another string
C13_Witness ==
  /\ record.made
  /\ Cardinality(Messages) >= 2
  /\ ret.op = "Message"
  /\ Sprintf(record.fmt, record.args) # ret.value

\* C20: Formatted runs the formatter at most once per record, whatever the
\* formatter writes, the empty string included, and however often it is called
C20_FormatsAtMostOnce ==
  record.formats <= 1

-----------------------------------------------------------------------------
(* Goroutines on one filter: GetLevel and SetLevel one memory access at a  *)
(* time. moduleLeveled has no lock, so nothing orders the accesses of two  *)
(* goroutines.                                                             *)

\* the field of the filter that goroutine t accesses next, and whether it
\* writes it
FilterAccess(t) ==
  CASE pc[t] = "g_cache" -> [loc |-> "levels", write |-> FALSE]
    [] pc[t] = "g_exact" -> [loc |-> "exactMatch", write |-> FALSE]
    [] pc[t] = "g_rules" -> [loc |-> "patternRules", write |-> FALSE]
    [] pc[t] = "g_store" -> [loc |-> "levels", write |-> TRUE]
    [] pc[t] = "s_append" -> [loc |-> "patternRules", write |-> TRUE]
    [] pc[t] = "s_len" -> [loc |-> "levels", write |-> FALSE]
    [] pc[t] = "s_clear" -> [loc |-> "levels", write |-> TRUE]
    [] pc[t] = "s_exact" -> [loc |-> "exactMatch", write |-> TRUE]
    [] pc[t] = "s_cache" -> [loc |-> "levels", write |-> TRUE]
    [] OTHER -> [loc |-> Nil, write |-> FALSE]

\* t and u are about to access the same field, one of them writing
Races(t, u) ==
  /\ t # u
  /\ FilterAccess(t).loc # Nil
  /\ FilterAccess(t).loc = FilterAccess(u).loc
  /\ FilterAccess(t).write \/ FilterAccess(u).write

InSetLevel(t) == pc[t] \in {"s_append", "s_len", "s_clear", "s_exact", "s_cache"}

\* goroutine t enters l.GetLevel(module); clean: no SetLevel is under way
GoGetLevel(t, module) ==
  /\ proc = "running"
  /\ pc[t] = "idle"
  /\ pc' = [pc EXCEPT ![t] = "g_cache"]
  /\ local' = [local EXCEPT ![t] =
                 [op |-> "GetLevel", module |-> module, level |-> DEBUG,
                  clean |-> \A u \in Goroutines : ~InSetLevel(u)]]
  /\ UNCHANGED <<filters, annotators, loggers, defaultBackend, formatter, sequenceNo,
                 reImpl, calls, ret, attached, hist, proc, record>>

\* goroutine t enters l.SetLevel(level, module) with a well-formed module
GoSetLevel(t, level, module) ==
  /\ proc = "running"
  /\ pc[t] = "idle"
  /\ ~IsBad(module)
  /\ IsGlob(module) =>
       Len(filters[1].patternRules)
         + Cardinality({ u \in Goroutines : pc[u] = "s_append" }) < MaxRules
  /\ pc' = [pc EXCEPT ![t] = IF IsGlob(module) THEN "s_append" ELSE "s_exact"]
  /\ local' = [u \in Goroutines |->
                 IF u = t THEN [op |-> "SetLevel", module |-> module, level |-> level,
                                clean |-> FALSE]
                 ELSE IF pc[u] = "idle" THEN local[u]
                 ELSE [local[u] EXCEPT !.clean = FALSE]]
  /\ UNCHANGED <<filters, annotators, loggers, defaultBackend, formatter, sequenceNo,
                 reImpl, calls, ret, attached, hist, proc, record>>

\* what a finished call of goroutine t leaves; rules is what the rules of the
\* filter give for the module at that moment
GoReturn(t, level) ==
  /\ pc' = [pc EXCEPT ![t] = "idle"]
  /\ local' = [local EXCEPT ![t] = Nil]
  /\ ret' = Ret(local[t].op, Nil, local[t].module,
                [level |-> level, clean |-> local[t].clean,
                 rules |-> Resolve(filters[1], local[t].module)])

\* the next memory access of GetLevel in goroutine t
GetLevelStep(t) ==
  /\ proc = "running"
  /\ pc[t] \in {"g_cache", "g_exact", "g_rules", "g_store"}
  /\ LET l == filters[1]
         m == local[t].module
     IN CASE pc[t] = "g_cache" ->
               /\ IF m \in DOMAIN l.levels
                  THEN GoReturn(t, l.levels[m])
                  ELSE /\ pc' = [pc EXCEPT ![t] = "g_exact"]
                       /\ UNCHANGED <<local, ret>>
               /\ UNCHANGED filters
          [] pc[t] = "g_exact" ->
               /\ IF m \in DOMAIN l.exactMatch
                  THEN /\ pc' = [pc EXCEPT ![t] = "g_store"]
                       /\ local' = [local EXCEPT ![t].level = l.exactMatch[m]]
                  ELSE /\ pc' = [pc EXCEPT ![t] = "g_rules"]
                       /\ UNCHANGED local
               /\ UNCHANGED <<filters, ret>>
          [] pc[t] = "g_rules" ->
               /\ pc' = [pc EXCEPT ![t] = "g_store"]
               /\ local' = [local EXCEPT ![t].level = ScanRules(l.patternRules, m, DEBUG)]
               /\ UNCHANGED <<filters, ret>>
          [] pc[t] = "g_store" ->
               /\ filters' = [filters EXCEPT ![1].levels = Put(@, m, local[t].level)]
               /\ GoReturn(t, local[t].level)
  /\ UNCHANGED <<annotators, loggers, defaultBackend, formatter, sequenceNo,
                 reImpl, calls, attached, hist, proc, record>>

\* the next memory access of SetLevel in goroutine t
SetLevelStep(t) ==
  /\ proc = "running"
  /\ InSetLevel(t)
  /\ LET l == filters[1]
         m == local[t].module
     IN CASE pc[t] = "s_append" ->
               /\ filters' = [filters EXCEPT ![1].patternRules =
                                Append(@, [pattern |-> m, level |-> local[t].level])]
               /\ pc' = [pc EXCEPT ![t] = "s_len"]
               /\ UNCHANGED <<local, ret>>
          [] pc[t] = "s_len" ->
               /\ IF Cardinality(DOMAIN l.levels) > 0
                  THEN /\ pc' = [pc EXCEPT ![t] = "s_clear"]
                       /\ UNCHANGED <<local, ret>>
                  ELSE GoReturn(t, Nil)
               /\ UNCHANGED filters
          [] pc[t] = "s_clear" ->
               /\ filters' = [filters EXCEPT ![1].levels = EmptyMap]
               /\ GoReturn(t, Nil)
          [] pc[t] = "s_exact" ->
               /\ filters' = [filters EXCEPT ![1].exactMatch = Put(@, m, local[t].level)]
               /\ pc' = [pc EXCEPT ![t] = "s_cache"]
               /\ UNCHANGED <<local, ret>>
          [] pc[t] = "s_cache" ->
               /\ filters' = [filters EXCEPT ![1].levels = Put(@, m, local[t].level)]
               /\ GoReturn(t, Nil)
  /\ UNCHANGED <<annotators, loggers, defaultBackend, formatter, sequenceNo,
                 reImpl, calls, attached, hist, proc, record>>

\* an access to a map that another goroutine is about to access, one of them
\* writing: the Go runtime may stop the program with "concurrent map read and
\* map write" or "concurrent map writes"
MapFault(t) ==
  /\ proc = "running"
  /\ FilterAccess(t).loc \in {"levels", "exactMatch"}
  /\ \E u \in Goroutines : Races(t, u)
  /\ proc' = "fatal"
  /\ UNCHANGED <<filters, annotators, loggers, defaultBackend, formatter, sequenceNo,
                 reImpl, calls, ret, attached, pc, local, hist, record>>

\* two goroutines that look levels up and register rules on the same filter
NextFilterRace ==
  \/ \E t \in Goroutines, module \in {NameAB} : GoGetLevel(t, module)
  \/ \E t \in Goroutines, level \in SetLevels, module \in {NameAB, <<"*">>} :
        GoSetLevel(t, level, module)
  \/ \E t \in Goroutines : GetLevelStep(t)
  \/ \E t \in Goroutines : SetLevelStep(t)
  \/ \E t \in Goroutines : MapFault(t)

SpecFilterRace == Init /\ [][NextFilterRace]_vars

\* C14: on one filter, no two goroutines access the cache, the exact matches
\* or the pattern rules at the same time with one of them writing, the
\* program is not stopped, and a lookup that starts when every SetLevel has
\* returned answers from the rules as they are
C14_FilterSafeUnderConcurrency ==
  /\ \A t, u \in Goroutines : ~Races(t, u)
  /\ proc # "fatal"
  /\ (ret.op = "GetLevel" /\ ret.value.clean) => ret.value.level = ret.value.rules

-----------------------------------------------------------------------------
(* Goroutines in moduleLeveled.Log of one filter, and SetFormatter *)

\* the formatters SetFormatter is given
FormatterNames == { "DefaultFormatter", "Custom" }

\* SetFormatter(f): getFormatter() returns f from now on
CallSetFormatter(f) ==
  /\ proc = "running"
  /\ formatter # f
  /\ formatter' = f
  /\ ret' = Ret("SetFormatter", Nil, Nil, f)
  /\ calls' = <<>>
  /\ UNCHANGED <<filters, annotators, loggers, defaultBackend, sequenceNo, reImpl,
                 attached, pc, local, hist, proc, record>>

\* what the history keeps of the filter's formatter: the run of the function
\* given to once.Do, and the records forwarded
Onces == { k \in DOMAIN hist : hist[k].ev = "once" }
Forwards == { k \in DOMAIN hist : hist[k].ev = "forward" }

\* goroutine t enters l.Log(level, calldepth, rec) on the filter at 1, and
\* leaves it at once when the level is not enabled
GoFilterLog(t, level, module) ==
  /\ proc = "running"
  /\ pc[t] = "idle"
  /\ Cardinality(Forwards) + Cardinality(InFlight) < MaxHist
  /\ LET en == IsEnabledFor(filters[1], level, module)
     IN /\ filters' = [filters EXCEPT ![1] = en.l]
        /\ pc' = [pc EXCEPT ![t] = IF en.result THEN "once" ELSE "idle"]
        /\ local' = [local EXCEPT ![t] =
                       IF en.result THEN [op |-> "Log", level |-> level, module |-> module]
                       ELSE Nil]
  /\ UNCHANGED <<annotators, loggers, defaultBackend, formatter, sequenceNo, reImpl,
                 calls, ret, attached, hist, proc, record>>

\* l.once.Do(f) in goroutine t: past it when f has run; into f when no
\* goroutine is in it; waiting while another goroutine is in it
OnceDo(t) ==
  /\ pc[t] = "once"
  /\ \A u \in Goroutines : pc[u] # "once_f"
  /\ pc' = [pc EXCEPT ![t] = IF filters[1].once THEN "formatter" ELSE "once_f"]
  /\ UNCHANGED <<filters, annotators, loggers, defaultBackend, formatter, sequenceNo,
                 reImpl, calls, ret, attached, local, hist, proc, record>>

\* the function given to once.Do, run by goroutine t
OnceFunc(t) ==
  /\ pc[t] = "once_f"
  /\ filters' = [filters EXCEPT ![1] = getFormatterAndCacheCurrent(@, formatter).l]
  /\ hist' = Append(hist, Returned("once", formatter))
  /\ pc' = [pc EXCEPT ![t] = "formatter"]
  /\ UNCHANGED <<annotators, loggers, defaultBackend, formatter, sequenceNo,
                 reImpl, calls, ret, attached, local, proc, record>>

\* return l.formatter, rec.formatter = it, and the record forwarded to
\* l.backend with calldepth+1
GoForward(t) ==
  /\ pc[t] = "formatter"
  /\ hist' = Append(hist, Returned("forward", filters[1].formatter))
  /\ ret' = Ret("Log", local[t].level, local[t].module, filters[1].formatter)
  /\ pc' = [pc EXCEPT ![t] = "idle"]
  /\ local' = [local EXCEPT ![t] = Nil]
  /\ UNCHANGED <<filters, annotators, loggers, defaultBackend, formatter, sequenceNo,
                 reImpl, calls, attached, proc, record>>

\* goroutines that log through one filter while the formatter is changed
NextOnce ==
  \/ \E f \in FormatterNames : CallSetFormatter(f)
  \/ \E t \in Goroutines : GoFilterLog(t, ERROR, NameAB)
  \/ \E t \in Goroutines : OnceDo(t)
  \/ \E t \in Goroutines : OnceFunc(t)
  \/ \E t \in Goroutines : GoForward(t)

SpecOnce == Init /\ [][NextOnce]_vars

\* C15: the function given to once.Do runs at most once for a filter, and
\* every record the filter forwards carries the formatter that getFormatter()
\* returned in that run, whatever SetFormatter did afterwards
C15_FormatterResolvedOnce ==
  /\ Cardinality(Onces) <= 1
  /\ \A k \in Forwards : \E j \in Onces : j < k /\ hist[k].value = hist[j].value

\* two records forwarded by the filter, the second after SetFormatter had
\* installed another formatter
C15_Witness ==
  /\ Cardinality(Forwards) >= 2
  /\ ret.op = "Log"
  /\ formatter # ret.value

-----------------------------------------------------------------------------
(* The Annotator: Add and Log *)

ExtraKeys == { "k1", "k2" }
ExtraValues == { "v1", "v2" }

\* the orders in which Go may iterate a map with the keys ExtraKeys
KeyOrders == { <<"k1", "k2">>, <<"k2", "k1">> }

\* the annotations a record may carry when it reaches the Annotator
PriorAnnotations == { <<>>, << [Key |-> "p", Value |-> "v0"] >> }

\* a.Add(key, val)
Annotator_Add(a, key, val) ==
  [a EXCEPT !.Extras = Put(@, key, [Key |-> key, Value |-> val])]

Adds == { k \in DOMAIN hist : hist[k].ev = "Add" }

CallAnnotatorAdd(id, key, val) ==
  /\ id \in DOMAIN annotators
  /\ Cardinality(Adds) < MaxHist
  /\ annotators' = [annotators EXCEPT ![id] = Annotator_Add(@, key, val)]
  /\ hist' = Append(hist, Returned("Add", [annotator |-> id, key |-> key, val |-> val]))
  /\ ret' = Ret("Add", Nil, Nil, [annotator |-> id, key |-> key, val |-> val])
  /\ calls' = <<>>
  /\ UNCHANGED <<filters, loggers, defaultBackend, formatter, sequenceNo, reImpl,
                 attached, pc, local, proc, record>>

\* a.Log(level, depth, rec) for a record of module that carries prior
CallAnnotatorLog(id, level, depth, module, prior, order, e) ==
  /\ id \in DOMAIN annotators
  /\ LET rec == [NewRecord(0, module, level) EXCEPT !.Annotations = prior]
         r == Backend_Log(World(e, order), AnnotatorRef(id), level, depth, rec)
     IN /\ Commit(r.w)
        /\ ret' = Ret("Annotator.Log", level, module,
                      [annotator |-> id, depth |-> depth, given |-> rec, err |-> r.err])
  /\ UNCHANGED <<loggers, reImpl, attached>>
  /\ UNCHANGED callVars

\* the default filter and one more
TwoFilters == {1, 2}

\* an Annotator in front of the default backend or of a filter of its own
NextAnnotator ==
  \/ Len(filters) < Cardinality(TwoFilters) /\ CallAddModuleLevel(SinkRef(2))
  \/ \E b \in FilterRefs \cup {NilRef} : CallNewAnnotator(b)
  \/ \E key \in ExtraKeys, val \in ExtraValues : CallAnnotatorAdd(1, key, val)
  \/ \E prior \in PriorAnnotations, order \in KeyOrders, e \in SinkErrors :
        CallAnnotatorLog(1, ERROR, 2, NameAB, prior, order, e)

SpecAnnotator == Init /\ [][NextAnnotator]_vars

\* the Add calls on the annotator at id with no later Add for the same key
LastAdds(id) ==
  { k \in Adds :
      /\ hist[k].value.annotator = id
      /\ \A j \in Adds : (hist[j].value.annotator = id
                          /\ hist[j].value.key = hist[k].value.key) => j <= k }

\* C16: Annotator.Log hands the record on exactly once, to the backend it
\* wraps or to the default backend when it wraps none, with depth+1 (the
\* filter behind it adds one more before the sink); the record handed on has
\* the annotations it came with as a prefix, followed by one annotation per
\* key given to Add, carrying the value of the last Add for that key; its id,
\* module and level are as they came
C16_AnnotatorLogAppends ==
  ret.op = "Annotator.Log" =>
    LET id == ret.value.annotator
        given == ret.value.given
        b == IF annotators[id].backend = NilRef THEN defaultBackend
             ELSE annotators[id].backend
        n == Len(given.Annotations)
    IN /\ Len(calls) = 1
       /\ calls[1].sink = filters[b.id].backend.id
       /\ calls[1].calldepth = ret.value.depth + 2
       /\ calls[1].level = ret.level
       /\ calls[1].rec.Id = given.Id
       /\ calls[1].rec.Module = given.Module
       /\ calls[1].rec.Level = given.Level
       /\ Len(calls[1].rec.Annotations) = n + Cardinality(LastAdds(id))
       /\ SubSeq(calls[1].rec.Annotations, 1, n) = given.Annotations
       /\ { calls[1].rec.Annotations[i] : i \in (n + 1)..Len(calls[1].rec.Annotations) }
            = { [Key |-> hist[k].value.key, Value |-> hist[k].value.val] : k \in LastAdds(id) }

\* a record that came with an annotation went through an Annotator with two
\* keys, one of them given to Add twice
C16_Witness ==
  /\ ret.op = "Annotator.Log"
  /\ ret.value.given.Annotations # <<>>
  /\ Cardinality(LastAdds(ret.value.annotator)) = 2
  /\ Cardinality(Adds) = 3
  /\ Len(calls) = 1

-----------------------------------------------------------------------------
(* Fatal, Fatalf, Fatalln, Panic, Panicf and Panicln *)

\* os.Exit(1): the process ends, with every goroutine where it stands
Exit(t) ==
  /\ proc = "running"
  /\ pc[t] = "exit"
  /\ proc' = "exited"
  /\ UNCHANGED <<filters, annotators, loggers, defaultBackend, formatter, sequenceNo,
                 reImpl, calls, ret, attached, pc, local, hist, record>>

\* panic(s): the call is left with the panic raised to its caller
Panic(t) ==
  /\ proc = "running"
  /\ pc[t] = "panic"
  /\ proc' = "panicking"
  /\ UNCHANGED <<filters, annotators, loggers, defaultBackend, formatter, sequenceNo,
                 reImpl, calls, ret, attached, pc, local, hist, record>>

\* a deferred recover() in the caller takes the panic; without one the
\* process stays where Panic left it
Recover(t) ==
  /\ proc = "panicking"
  /\ pc[t] = "panic"
  /\ proc' = "running"
  /\ pc' = [pc EXCEPT ![t] = "idle"]
  /\ local' = [local EXCEPT ![t] = Nil]
  /\ ret' = Ret("recover", Nil, Nil, Nil)
  /\ UNCHANGED <<filters, annotators, loggers, defaultBackend, formatter, sequenceNo,
                 reImpl, calls, attached, hist, record>>

\* one goroutine that sets level rules and calls the six, with sinks that
\* succeed or fail
NextFatal ==
  \/ proc = "running" /\ pc[1] = "idle" /\ CallGetLogger(NameAB, MaxChainLoggers)
  \/ /\ proc = "running" /\ pc[1] = "idle"
     /\ \E module \in {NameAB, <<"*">>} : CallSetLevel(1, CRITICAL, module)
  \/ \E op \in FatalClass \cup PanicClass, i \in DOMAIN loggers : GoCall(1, op, i, CRITICAL)
  \/ AddUint64(1)
  \/ \E e \in SinkErrors : GoSend(1, e)
  \/ Exit(1)
  \/ Panic(1)
  \/ Recover(1)

SpecFatal == Init /\ [][NextFatal]_vars

\* C17: when a Fatal-class call is about to end the process, or has ended
\* it, and when a Panic-class call is about to panic, or has panicked, its
\* CRITICAL record has been handed to the backend chain and has reached the
\* sink; once the record is handed on, whatever the sink returned and
\* whatever the level rules, the call does not return: the exit or the panic
\* is its next step
C17_FatalLogsThenTerminates ==
  /\ \A t \in Goroutines :
       pc[t] \in {"exit", "panic"} =>
         /\ ret.op = local[t].op
         /\ ret.value.rec.Level = CRITICAL
         /\ Len(calls) = 1
         /\ calls[1].level = CRITICAL
         /\ calls[1].rec.Id = ret.value.rec.Id
  /\ \A t \in Goroutines :
       (pc[t] = "exit" /\ proc = "running") => ENABLED Exit(t)
  /\ \A t \in Goroutines :
       (pc[t] = "panic" /\ proc = "running") => ENABLED Panic(t)
  /\ ret.op \in FatalClass => \E t \in Goroutines : pc[t] = "exit"
  /\ ret.op \in PanicClass => \E t \in Goroutines : pc[t] = "panic"
  /\ proc = "exited" => ret.op \in FatalClass
  /\ proc = "panicking" => ret.op \in PanicClass

\* the process was ended by a Fatal-class call whose sink returned an error,
\* on a filter that holds a CRITICAL rule for the logger's module
C17_Witness ==
  /\ proc = "exited"
  /\ Len(calls) = 1
  /\ calls[1].err # Nil
  /\ NameAB \in DOMAIN filters[1].exactMatch

-----------------------------------------------------------------------------
(* SetLevel with a malformed pattern *)

\* two filters, the default one among them: rules of every kind, the
\* malformed ones included, and lookups that fill the caches
NextBadGlob ==
  \/ Len(filters) < Cardinality(TwoFilters) /\ CallAddModuleLevel(SinkRef(2))
  \/ \E f \in DOMAIN filters, module \in BadPatterns \cup {<<"*">>} :
        CallSetLevel(f, WARNING, module)
  \/ CallSetLevel(1, CRITICAL, LoggerName)
  \/ \E f \in DOMAIN filters : CallGetLevel(f, NameAB)

SpecBadGlob == Init /\ [][NextBadGlob]_vars

\* C18: SetLevel(level, p) with p holding '*' or '?' and rejected by
\* path.Match completes: p becomes an exact match of the filter and is cached
\* with the level, no filter gains a pattern rule, every level cached before
\* stays cached (the only other entry a cache can gain is the one for
\* "logger" in the default filter, from the error being logged), and one
\* record is created, at ERROR for the module "logger", and handed to the
\* default backend, which passes it to its sink when "logger" is enabled for
\* ERROR there
C18_MalformedPatternIsLiteral ==
  [][(ret'.op = "SetLevel" /\ IsBad(ret'.module)) =>
       LET f == ret'.value.filter
           p == ret'.module
           d == defaultBackend.id
       IN /\ Len(filters') = Len(filters)
          /\ \A g \in DOMAIN filters :
               /\ filters'[g].patternRules = filters[g].patternRules
               /\ filters'[g].exactMatch =
                    IF g = f THEN Put(filters[g].exactMatch, p, ret'.level)
                    ELSE filters[g].exactMatch
               /\ \A m \in DOMAIN filters[g].levels \ (IF g = f THEN {p} ELSE {}) :
                    /\ m \in DOMAIN filters'[g].levels
                    /\ filters'[g].levels[m] = filters[g].levels[m]
               /\ DOMAIN filters'[g].levels \subseteq
                    DOMAIN filters[g].levels
                      \cup (IF g = f THEN {p} ELSE {})
                      \cup (IF g = d THEN {LoggerName} ELSE {})
          /\ filters'[f].levels[p] = ret'.level
          /\ sequenceNo' = sequenceNo + 1
          /\ Len(calls') = IF IsEnabledFor(filters[d], ERROR, LoggerName).result
                           THEN 1 ELSE 0
          /\ \A k \in DOMAIN calls' :
               /\ calls'[k].level = ERROR
               /\ calls'[k].rec.Level = ERROR
               /\ calls'[k].rec.Module = LoggerName
               /\ calls'[k].rec.Id = sequenceNo + 1]_vars

\* a malformed pattern was given to a filter that had a level cached under a
\* pattern rule, and the error reached the sink of the default backend
C18_Witness ==
  /\ ret.op = "SetLevel"
  /\ IsBad(ret.module)
  /\ filters[ret.value.filter].patternRules # <<>>
  /\ NameAB \in DOMAIN filters[ret.value.filter].levels
  /\ ret.module \in DOMAIN filters[ret.value.filter].exactMatch
  /\ Len(calls) = 1

-----------------------------------------------------------------------------
(* Loggers after InitForTesting *)

\* l.IsEnabledFor(level) for the logger at i, whose backend is a filter
CallLoggerIsEnabledFor(i, level) ==
  /\ proc = "running"
  /\ i \in DOMAIN loggers
  /\ LET b == Logger_Backend(World(Nil, <<>>), loggers[i])
     IN /\ b.kind = "filter"
        /\ LET en == IsEnabledFor(filters[b.id], level, loggers[i].Module)
           IN /\ filters' = [filters EXCEPT ![b.id] = en.l]
              /\ ret' = Ret("Logger.IsEnabledFor", level, loggers[i].Module,
                            [logger |-> i, result |-> en.result])
  /\ calls' = <<>>
  /\ UNCHANGED <<annotators, loggers, defaultBackend, formatter, sequenceNo, reImpl,
                 attached>>
  /\ UNCHANGED callVars

\* a test that calls InitForTesting and asks its loggers what is enabled
NextTesting ==
  \/ \E level \in Level : CallInitForTesting(1, level)
  \/ CallReset(1)
  \/ \E module \in ModuleNames : CallGetLogger(module, MaxChainLoggers)
  \/ \E i \in DOMAIN loggers, level \in Level : CallLoggerIsEnabledFor(i, level)

SpecTesting == Init /\ [][NextTesting]_vars

\* C19: when the package was last reset by InitForTesting(level), a logger
\* whose module has no rule of its own in the default filter is enabled for
\* L exactly when L <= level
C19_TestingLevelIsThreshold ==
  (/\ ret.op = "Logger.IsEnabledFor"
   /\ Resets # {}
   /\ hist[SetMax(Resets)].by = "InitForTesting"
   /\ ret.module \notin DOMAIN filters[defaultBackend.id].exactMatch
   /\ MatchingRules(filters[defaultBackend.id], ret.module) = {})
  => (ret.value.result <=> ret.level <= hist[SetMax(Resets)].level)

=============================================================================
